---- MODULE Spec2Model ----
(***************************************************************************)
(* Model of gaol's src/sandbox.rs: the Command builder (new, me, arg,      *)
(* args, env, spawn) and the ChildSandboxMethods::activate contract.       *)
(*                                                                         *)
(* Byte strings are sequences over 0..2; 0 is the nul byte.  A CString is  *)
(* the byte string followed by its nul terminator; the operating system    *)
(* reads a C string up to its first nul.                                   *)
(***************************************************************************)
EXTENDS Integers, Sequences, FiniteSets

VARIABLES
    pc,            \* "start": no Command yet; "built": a Command value is live;
                   \* "panicked": the calling thread unwound out of a call
    module_path,   \* Command.module_path : CString
    args,          \* Command.args : Vec<CString>
    env,           \* Command.env : HashMap<CString,CString>, as a set of <<key, value>> entries
    lastOp,        \* the operation performed last
    lastNul,       \* whether an input of that operation held a nul byte
    outcome,       \* how that operation ended: "Ok", "Err" or "Panic" ("None" before any)
    errCode,       \* the OS diagnostic an "Err" carries
    request,       \* the process-creation request that operation issued to the OS
    proc,          \* the process the returned handle refers to
    nSpawnCalls,   \* calls of Command::spawn so far
    nOsRequests,   \* process-creation requests issued to the OS so far
    nProcs,        \* processes created so far
    argLog,        \* every value passed to arg/args, in call order
    envLog,        \* every <<key, value>> passed to env, in call order
    currentExe,    \* what env::current_exe() reports in this run
    restricted,    \* whether the child's restrictions are in effect
    csState,       \* the ChildSandbox: "ProfileBound", "Active" or "Failed"
    activateCalls, \* calls of activate on the ChildSandbox value
    activateResult \* what the last activate returned

vars == <<pc, module_path, args, env, lastOp, lastNul, outcome, errCode, request, proc,
          nSpawnCalls, nOsRequests, nProcs, argLog, envLog, currentExe,
          restricted, csState, activateCalls, activateResult>>

cmdVars == <<module_path, args, env>>
osVars == <<request, proc, nSpawnCalls, nOsRequests, nProcs>>
childVars == <<restricted, csState, activateCalls, activateResult>>

----------------------------------------------------------------------------
(* Bounds *)

MaxArgs == 3
MaxEnvCalls == 2
MaxSpawns == 2
MaxActivations == 2

----------------------------------------------------------------------------
(* Inputs and the environment of the run *)

PathInputs == {<<1>>, <<2>>, <<2, 0, 1>>}
ArgInputs == {<<1>>, <<2>>, <<1, 0, 2>>}
ArgSlices == {<<>>, <<<<2>>, <<1>>>>, <<<<1>>, <<1, 0, 2>>>>}
\* <<key, value>> inputs of env
EnvInputs == {<< <<1>>, <<1>> >>, << <<1>>, <<2>> >>, << <<2>>, <<1>> >>,
              << <<0, 1>>, <<1>> >>, << <<2>>, <<2, 0>> >>}

\* The executables the OS can run; every other path is nonexistent.
Executables == {<<1>>}
\* The ambient environment of the calling process.
AmbientEnv == {<< <<1>>, <<2>> >>, << <<1, 1>>, <<1>> >>}
\* env::current_exe(): a path, or the lookup fails.
Unavailable == <<0>>
CurrentExeAnswers == {<<1>>, Unavailable}

NoRequest == [program |-> <<>>, args |-> <<>>, envSet |-> FALSE, env |-> {}]
NoProc == [program |-> <<>>, argv |-> <<>>, envp |-> {}]

----------------------------------------------------------------------------
(* CString *)

HasNul(b) == \E i \in 1..Len(b) : b[i] = 0

\* CString::from_slice panics on a slice that holds a 0 byte.
FromSliceUnchecked(b) == FALSE
FromSlicePanics(b) == HasNul(b)

\* CString::from_slice: the bytes followed by the nul terminator.
CStringFromSlice(b) == Append(b, 0)

\* container_as_bytes of a CString: the bytes without the terminator.
AsBytes(c) == SubSeq(c, 1, Len(c) - 1)

\* What the OS reads of a C string: the bytes before its first nul.
RECURSIVE OsRead(_)
OsRead(c) == IF c = <<>> \/ Head(c) = 0 THEN <<>> ELSE <<Head(c)>> \o OsRead(Tail(c))

----------------------------------------------------------------------------
(* Init *)

Init ==
    /\ pc = "start"
    /\ module_path = <<>>
    /\ args = <<>>
    /\ env = {}
    /\ lastOp = "none"
    /\ lastNul = FALSE
    /\ outcome = "None"
    /\ errCode = "none"
    /\ request = NoRequest
    /\ proc = NoProc
    /\ nSpawnCalls = 0
    /\ nOsRequests = 0
    /\ nProcs = 0
    /\ argLog = <<>>
    /\ envLog = <<>>
    /\ currentExe \in CurrentExeAnswers
    /\ restricted = FALSE
    /\ csState = "ProfileBound"
    /\ activateCalls = 0
    /\ activateResult = "None"

\* What a call that issues no OS request and returns no handle leaves behind.
NoOsEffect ==
    /\ request' = NoRequest
    /\ proc' = NoProc
    /\ UNCHANGED <<nSpawnCalls, nOsRequests, nProcs>>

Panic == pc' = "panicked" /\ outcome' = "Panic" /\ errCode' = "none"

\* A builder call that returns hands back the command it was called on.
Returned == pc' = pc /\ outcome' = "Ok" /\ errCode' = "none"

----------------------------------------------------------------------------
(* Command::new *)

New(p) ==
    /\ pc = "start"
    /\ lastOp' = "new"
    /\ lastNul' = HasNul(p)
    /\ IF FromSlicePanics(p)
         THEN /\ Panic
              /\ UNCHANGED cmdVars
         ELSE /\ pc' = "built"
              /\ outcome' = "Ok"
              /\ errCode' = "none"
              /\ module_path' = CStringFromSlice(p)
              /\ args' = <<>>
              /\ env' = {}
    /\ NoOsEffect
    /\ UNCHANGED <<argLog, envLog, currentExe, childVars>>

----------------------------------------------------------------------------
(* Command::me *)

MeUnwrap ==
    /\ pc = "start"
    /\ lastOp' = "me"
    /\ lastNul' = FALSE
    /\ IF currentExe = Unavailable
         THEN /\ Panic
              /\ UNCHANGED cmdVars
         ELSE /\ pc' = "built"
              /\ outcome' = "Ok"
              /\ errCode' = "none"
              /\ module_path' = CStringFromSlice(currentExe)
              /\ args' = <<>>
              /\ env' = {}
    /\ NoOsEffect
    /\ UNCHANGED <<argLog, envLog, currentExe, childVars>>

Me ==
    /\ pc = "start"
    /\ lastOp' = "me"
    /\ IF currentExe = Unavailable
         THEN \* try! returns the lookup's error
              /\ lastNul' = FALSE
              /\ pc' = pc
              /\ outcome' = "Err"
              /\ errCode' = "current_exe"
              /\ UNCHANGED cmdVars
         ELSE /\ lastNul' = HasNul(currentExe)
              /\ IF FromSlicePanics(currentExe)
                   THEN /\ Panic
                        /\ UNCHANGED cmdVars
                   ELSE /\ pc' = "built"
                        /\ outcome' = "Ok"
                        /\ errCode' = "none"
                        /\ module_path' = CStringFromSlice(currentExe)
                        /\ args' = <<>>
                        /\ env' = {}
    /\ NoOsEffect
    /\ UNCHANGED <<argLog, envLog, currentExe, childVars>>

----------------------------------------------------------------------------
(* Command::arg, Command::args *)

ArgClearsEnv(v) ==
    /\ pc = "built"
    /\ Len(args) < MaxArgs
    /\ lastOp' = "arg"
    /\ lastNul' = HasNul(v)
    /\ argLog' = Append(argLog, v)
    /\ IF FromSlicePanics(v)
         THEN /\ Panic
              /\ UNCHANGED cmdVars
         ELSE /\ Returned
              /\ args' = Append(args, CStringFromSlice(v))
              /\ env' = {}
              /\ UNCHANGED module_path
    /\ NoOsEffect
    /\ UNCHANGED <<envLog, currentExe, childVars>>

Arg(v) ==
    /\ pc = "built"
    /\ Len(args) < MaxArgs
    /\ lastOp' = "arg"
    /\ lastNul' = HasNul(v)
    /\ argLog' = Append(argLog, v)
    /\ IF FromSlicePanics(v)
         THEN /\ Panic
              /\ UNCHANGED cmdVars
         ELSE /\ Returned
              /\ args' = Append(args, CStringFromSlice(v))
              /\ UNCHANGED <<module_path, env>>
    /\ NoOsEffect
    /\ UNCHANGED <<envLog, currentExe, childVars>>

\* Vec::extend pushes the mapped elements one by one: the elements before the
\* first one on which from_slice panics are already in the vector.
RECURSIVE Converted(_)
Converted(vs) ==
    IF vs = <<>> \/ FromSlicePanics(Head(vs))
      THEN <<>>
      ELSE <<CStringFromSlice(Head(vs))>> \o Converted(Tail(vs))

RECURSIVE Reverse(_)
Reverse(s) == IF s = <<>> THEN <<>> ELSE Append(Reverse(Tail(s)), Head(s))

ArgsReversed(vs) ==
    /\ pc = "built"
    /\ Len(args) + Len(vs) <= MaxArgs
    /\ lastOp' = "args"
    /\ lastNul' = (\E i \in 1..Len(vs) : HasNul(vs[i]))
    /\ argLog' = argLog \o vs
    /\ args' = args \o Reverse(Converted(vs))
    /\ IF Len(Converted(vs)) < Len(vs) THEN Panic ELSE Returned
    /\ UNCHANGED <<module_path, env>>
    /\ NoOsEffect
    /\ UNCHANGED <<envLog, currentExe, childVars>>

Args(vs) ==
    /\ pc = "built"
    /\ Len(args) + Len(vs) <= MaxArgs
    /\ lastOp' = "args"
    /\ lastNul' = (\E i \in 1..Len(vs) : HasNul(vs[i]))
    /\ argLog' = argLog \o vs
    /\ args' = args \o Converted(vs)
    /\ IF Len(Converted(vs)) < Len(vs) THEN Panic ELSE Returned
    /\ UNCHANGED <<module_path, env>>
    /\ NoOsEffect
    /\ UNCHANGED <<envLog, currentExe, childVars>>

----------------------------------------------------------------------------
(* Command::env *)

\* An insert that keeps the entry a key already has.
HashMapInsertKeepsOld(m, k, v) == IF \E e \in m : e[1] = k THEN m ELSE m \cup {<<k, v>>}

\* HashMap::insert: the entry of the key is replaced.
HashMapInsert(m, k, v) == {e \in m : e[1] # k} \cup {<<k, v>>}

Env(k, v) ==
    /\ pc = "built"
    /\ Len(envLog) < MaxEnvCalls
    /\ lastOp' = "env"
    /\ lastNul' = (HasNul(k) \/ HasNul(v))
    /\ envLog' = Append(envLog, <<k, v>>)
    /\ IF FromSlicePanics(k) \/ FromSlicePanics(v)
         THEN /\ Panic
              /\ UNCHANGED cmdVars
         ELSE /\ Returned
              /\ env' = HashMapInsert(env, CStringFromSlice(k), CStringFromSlice(v))
              /\ UNCHANGED <<module_path, args>>
    /\ NoOsEffect
    /\ UNCHANGED <<argLog, currentExe, childVars>>

----------------------------------------------------------------------------
(* Command::spawn *)

\* process::Command::new(&self.module_path)
ProcCommandNew(program) ==
    [program |-> CStringFromSlice(AsBytes(program)), args |-> <<>>,
     envSet |-> FALSE, env |-> {}]

\* process::Command::args(self.args.as_slice())
ProcArgs(c, as) ==
    [c EXCEPT !.args = @ \o [i \in 1..Len(as) |-> CStringFromSlice(AsBytes(as[i]))]]

\* process::Command::env_set_all(env.as_slice()): the whole environment map of
\* the child is replaced by the given entries (their keys are distinct, so the
\* order in which the HashMap iterator yields them does not matter).
ProcEnvSetAll(c, e) ==
    [c EXCEPT !.envSet = TRUE,
              !.env = {<<CStringFromSlice(AsBytes(p[1])), CStringFromSlice(AsBytes(p[2]))>> : p \in e}]

\* A request built without env_set_all: the child inherits the ambient environment.
SpawnRequestInherit(mp, as, e) == ProcArgs(ProcCommandNew(mp), as)

\* A request built without the arguments.
SpawnRequestNoArgs(mp, as, e) == ProcEnvSetAll(ProcCommandNew(mp), e)

SpawnRequest(mp, as, e) == ProcEnvSetAll(ProcArgs(ProcCommandNew(mp), as), e)

\* The environment the OS gives the child of a request.
ChildEnv(req) ==
    IF req.envSet THEN {<<OsRead(p[1]), OsRead(p[2])>> : p \in req.env} ELSE AmbientEnv

\* The OS's answers to a process-creation request: the process, or an error.
OsCreateProcess(req) ==
    IF OsRead(req.program) \in Executables
      THEN {[ok |-> TRUE, err |-> "none",
             proc |-> [program |-> OsRead(req.program),
                       argv |-> [i \in 1..Len(req.args) |-> OsRead(req.args[i])],
                       envp |-> ChildEnv(req)]],
            [ok |-> FALSE, err |-> "EAGAIN", proc |-> NoProc]}
      ELSE {[ok |-> FALSE, err |-> "ENOENT", proc |-> NoProc]}

\* A spawn that takes the command by value: the caller's value is gone afterwards.
SelfMoved == pc' = "consumed" /\ UNCHANGED cmdVars

\* spawn(&self): the command is borrowed, neither moved nor changed.
SelfBorrowed == UNCHANGED <<pc, cmdVars>>

\* A spawn that asks the OS a second time when the first request fails.
SpawnRetry ==
    /\ pc = "built"
    /\ nSpawnCalls < MaxSpawns
    /\ lastOp' = "spawn"
    /\ lastNul' = FALSE
    /\ nSpawnCalls' = nSpawnCalls + 1
    /\ LET req == SpawnRequest(module_path, args, env) IN
         /\ request' = req
         /\ \E o1 \in OsCreateProcess(req), o2 \in OsCreateProcess(req) :
              LET o == IF o1.ok THEN o1 ELSE o2 IN
              /\ nOsRequests' = IF o1.ok THEN nOsRequests + 1 ELSE nOsRequests + 2
              /\ proc' = o.proc
              /\ errCode' = o.err
              /\ outcome' = IF o.ok THEN "Ok" ELSE "Err"
              /\ nProcs' = IF o.ok THEN nProcs + 1 ELSE nProcs
    /\ SelfBorrowed
    /\ UNCHANGED <<argLog, envLog, currentExe, childVars>>

Spawn ==
    /\ pc = "built"
    /\ nSpawnCalls < MaxSpawns
    /\ lastOp' = "spawn"
    /\ lastNul' = FALSE
    /\ nSpawnCalls' = nSpawnCalls + 1
    /\ LET req == SpawnRequest(module_path, args, env) IN
         /\ request' = req
         /\ nOsRequests' = nOsRequests + 1
         /\ \E o \in OsCreateProcess(req) :
              /\ proc' = o.proc
              /\ errCode' = o.err
              /\ outcome' = IF o.ok THEN "Ok" ELSE "Err"
              /\ nProcs' = IF o.ok THEN nProcs + 1 ELSE nProcs
    /\ SelfBorrowed
    /\ UNCHANGED <<argLog, envLog, currentExe, childVars>>

----------------------------------------------------------------------------
(* ChildSandboxMethods::activate *)

\* fn activate(&self) -> Result<(),()>
ActivateResults == {"Ok", "Err"}

\* An activation whose failure leaves the process unrestricted again.
ActivateLifts ==
    /\ nProcs >= 1
    /\ activateCalls < MaxActivations
    /\ activateCalls' = activateCalls + 1
    /\ \E r \in ActivateResults :
         /\ activateResult' = r
         /\ restricted' = (r = "Ok")
         /\ csState' = IF r = "Ok" THEN "Active" ELSE "Failed"
    /\ UNCHANGED <<pc, cmdVars, lastOp, lastNul, outcome, errCode, osVars,
                   argLog, envLog, currentExe>>

\* Restrictions are in effect "from here on out": a later call cannot lift them.
\* The ChildSandbox lives in a spawned child process.
Activate ==
    /\ nProcs >= 1
    /\ activateCalls < MaxActivations
    /\ activateCalls' = activateCalls + 1
    /\ \E r \in ActivateResults :
         /\ activateResult' = r
         /\ restricted' = (restricted \/ r = "Ok")
         /\ csState' = IF r = "Ok" \/ csState = "Active" THEN "Active" ELSE "Failed"
    /\ UNCHANGED <<pc, cmdVars, lastOp, lastNul, outcome, errCode, osVars,
                   argLog, envLog, currentExe>>

----------------------------------------------------------------------------

Next ==
    \/ \E p \in PathInputs : New(p)
    \/ Me
    \/ \E v \in ArgInputs : Arg(v)
    \/ \E vs \in ArgSlices : Args(vs)
    \/ \E kv \in EnvInputs : Env(kv[1], kv[2])
    \/ Spawn
    \/ Activate

Spec == Init /\ [][Next]_vars

----------------------------------------------------------------------------
(* Helpers of the properties *)

\* The env calls that returned: a call that panicked is the last one logged.
ReturnedEnvCalls ==
    IF pc = "panicked" /\ lastOp = "env" THEN SubSeq(envLog, 1, Len(envLog) - 1) ELSE envLog

KeysOf(log) == {log[i][1] : i \in 1..Len(log)}

\* The value of the last call in log that set key k.
LastVal(log, k) ==
    log[CHOOSE i \in 1..Len(log) :
            /\ log[i][1] = k
            /\ \A j \in (i + 1)..Len(log) : log[j][1] # k][2]

\* The key/value pairs a log of env calls amounts to.
Accumulated(log) == {<<k, LastVal(log, k)>> : k \in KeysOf(log)}

EnvBytes(m) == {<<AsBytes(e[1]), AsBytes(e[2])>> : e \in m}
ArgBytes(as) == [i \in 1..Len(as) |-> AsBytes(as[i])]

NoNulStored ==
    /\ ~HasNul(AsBytes(module_path))
    /\ \A i \in 1..Len(args) : ~HasNul(AsBytes(args[i]))
    /\ \A e \in env : ~HasNul(AsBytes(e[1])) /\ ~HasNul(AsBytes(e[2]))

----------------------------------------------------------------------------
(* C1 *)

----------------------------------------------------------------------------
(* C2 *)

\* C2: the environment spawn hands to the OS is exactly the key/value pairs
\* accumulated by the env calls; nothing of the ambient environment is passed
\* unless it was inserted, and a fresh command passes an empty environment.
C2_ExactEnvironment ==
    lastOp = "spawn" =>
        /\ request.envSet
        /\ EnvBytes(request.env) = Accumulated(envLog)
        /\ outcome = "Ok" =>
             /\ proc.envp = Accumulated(envLog)
             /\ (proc.envp \cap AmbientEnv) \subseteq EnvBytes(env)
             /\ envLog = <<>> => proc.envp = {}

C2_Witness ==
    /\ lastOp = "spawn" /\ outcome = "Ok"
    /\ proc.envp = {<< <<2>>, <<1>> >>}
    /\ proc.envp \cap AmbientEnv = {}

----------------------------------------------------------------------------
(* C3 *)

\* C3: the env map holds exactly one entry per distinct key set, the value of
\* each key is that of the last env call for the key, whatever the order of the
\* calls for other keys.
C3_LastWriteWins ==
    /\ EnvBytes(env) = Accumulated(ReturnedEnvCalls)
    /\ Cardinality(env) = Cardinality(KeysOf(ReturnedEnvCalls))
    /\ \A e1, e2 \in env : e1[1] = e2[1] => e1 = e2

C3_Witness ==
    /\ pc = "built"
    /\ Len(envLog) = 2
    /\ envLog[1][1] = envLog[2][1]
    /\ envLog[1][2] # envLog[2][2]
    /\ EnvBytes(env) = {envLog[2]}

----------------------------------------------------------------------------
(* C4 *)

\* C4: the argument list is the concatenation, in call order, of every value
\* passed to arg and args, and spawn passes this list on unchanged.
C4_ArgsInCallOrder ==
    pc = "built" =>
        /\ ArgBytes(args) = argLog
        /\ lastOp = "spawn" =>
             /\ ArgBytes(request.args) = argLog
             /\ outcome = "Ok" => proc.argv = argLog

C4_Witness ==
    /\ lastOp = "spawn" /\ outcome = "Ok"
    /\ proc.argv = << <<1>>, <<2>>, <<1>> >>

----------------------------------------------------------------------------
(* C5 *)

\* C5: every spawn ends either with a handle of a process created with exactly
\* the command's path, arguments and environment, or with an error value that
\* carries the OS diagnostic, no handle and no process created (as for a
\* nonexistent executable); it never terminates the caller.
C5_SpawnOutcome ==
    [][nSpawnCalls' # nSpawnCalls =>
         /\ pc' = "built"
         /\ \/ /\ outcome' = "Ok"
               /\ errCode' = "none"
               /\ nProcs' = nProcs + 1
               /\ proc' = [program |-> AsBytes(module_path),
                           argv |-> ArgBytes(args),
                           envp |-> EnvBytes(env)]
            \/ /\ outcome' = "Err"
               /\ errCode' \in {"ENOENT", "EAGAIN"}
               /\ nProcs' = nProcs
               /\ proc' = NoProc
         /\ AsBytes(module_path) \notin Executables =>
              outcome' = "Err" /\ errCode' = "ENOENT"]_vars

C5_Witness ==
    /\ lastOp = "spawn" /\ outcome = "Err" /\ errCode = "ENOENT"
    /\ proc = NoProc /\ nProcs = 0 /\ pc = "built"

----------------------------------------------------------------------------
(* C6 *)

\* C6 (as stated): a command is consumed by its first spawn: no second spawn
\* and no builder call follows a spawn on the same value.
C6_ConsumedOnce ==
    /\ nSpawnCalls <= 1
    /\ ~(nSpawnCalls >= 1 /\ lastOp \in {"arg", "args", "env"})

\* C6 (amended): spawn borrows the command and does not consume it: after a
\* spawn the same value is still live, and (within the bounds on calls) a
\* further spawn and further builder calls can be performed on it.
C6_Reusable ==
    lastOp = "spawn" =>
        /\ pc = "built"
        /\ nSpawnCalls < MaxSpawns => ENABLED Spawn
        /\ Len(args) < MaxArgs => ENABLED Arg(<<1>>)
        /\ Len(envLog) < MaxEnvCalls => ENABLED Env(<<1>>, <<2>>)

C6_Witness ==
    /\ lastOp = "spawn" /\ nSpawnCalls = 2 /\ pc = "built"
    /\ argLog # <<>> /\ envLog # <<>>

----------------------------------------------------------------------------
(* C7 *)

\* C7 (as stated): activate is one-shot: a second call on the same ChildSandbox
\* value cannot happen.
C7_OneShot == activateCalls <= 1

\* C7 (amended): activate returns success or failure as a value, and once
\* restrictions are in effect (Active) no later call, a repeated activate that
\* fails included, leads back to an unrestricted state; activate takes &self,
\* so a second call on the same value is possible and left to the caller.
C7_Irreversible ==
    [][/\ restricted => restricted'
       /\ csState = "Active" => csState' = "Active"
       /\ activateCalls' # activateCalls =>
            /\ activateResult' \in {"Ok", "Err"}
            /\ activateResult' = "Ok" => restricted' /\ csState' = "Active"
            /\ (activateResult' = "Err" /\ ~restricted) => ~restricted' /\ csState' = "Failed"
            /\ <<pc, cmdVars, outcome, osVars>>' = <<pc, cmdVars, outcome, osVars>>]_vars

C7_Witness ==
    activateCalls = 2 /\ activateResult = "Err" /\ restricted /\ csState = "Active"

----------------------------------------------------------------------------
(* C8 *)

\* C8: me returns an error value and no command when the OS cannot report the
\* current executable; when it reports p, the command has path p, no arguments
\* and no environment.
C8_Me ==
    lastOp = "me" =>
        IF currentExe = Unavailable
          THEN /\ outcome = "Err" /\ errCode = "current_exe"
               /\ pc = "start"
               /\ module_path = <<>> /\ args = <<>> /\ env = {}
          ELSE /\ outcome = "Ok"
               /\ pc = "built"
               /\ AsBytes(module_path) = currentExe
               /\ OsRead(module_path) = currentExe
               /\ args = <<>> /\ env = {}

C8_Witness ==
    lastOp = "me" /\ currentExe = Unavailable /\ outcome = "Err" /\ pc = "start"

----------------------------------------------------------------------------
(* C9 *)

\* C9: each spawn call issues exactly one process-creation request, whether it
\* succeeds or fails: after n calls n requests were issued and at most n
\* processes created.
C9_NoRetry ==
    /\ nOsRequests = nSpawnCalls
    /\ nProcs <= nSpawnCalls

C9_Witness ==
    /\ lastOp = "spawn" /\ outcome = "Err" /\ errCode = "EAGAIN"
    /\ nSpawnCalls = 2 /\ nOsRequests = 2 /\ nProcs = 1

----------------------------------------------------------------------------
(* C10 *)

\* C10: arg and args leave path and env unchanged, env leaves path and
\* arguments unchanged, the path never changes after construction, spawn leaves
\* all three unchanged, and two spawns with no builder call in between issue
\* identical requests.
C10_Frame ==
    [][/\ argLog' # argLog => module_path' = module_path /\ env' = env
       /\ envLog' # envLog => module_path' = module_path /\ args' = args
       /\ pc = "built" => module_path' = module_path
       /\ nSpawnCalls' # nSpawnCalls =>
            /\ <<module_path, args, env>>' = <<module_path, args, env>>
            /\ lastOp = "spawn" => request' = request]_vars

C10_Witness ==
    /\ lastOp = "spawn" /\ nSpawnCalls = 2
    /\ args # <<>> /\ env # {}
    /\ outcome = "Ok" /\ nProcs = 1

====
